---- MODULE Spec2Model ----
(***************************************************************************)
(* A model of nt (src/src/main.rs): the `new` and `search` subcommands,    *)
(* the rg -> skim -> splitn -> editor -> print_preview pipeline, and the   *)
(* preview command handed to skim.                                         *)
(*                                                                         *)
(* Text is modelled as a sequence of one-character strings, so that        *)
(* splitting, joining, formatting and base names are computed, not assumed.*)
(***************************************************************************)
EXTENDS Integers, Sequences, FiniteSets, TLC

VARIABLES
    pc,          \* position of main(): "start", "new", "rg", "skim", "loop",
                 \* "editing", "preview", "done", "panic"
    cmd,         \* Nt::from_args(): "new" or "search"
    editor,      \* what edit::get_editor() resolves to in this environment
    rgStatus,    \* how the rg child ended: "unrun", "nospawn", "ok", "nomatch", "error"
    items,       \* the lines of rg's captured stdout, as offered to skim
    skimOut,     \* what Skim::run_with returned
    selected,    \* selected_items (main.rs:96-98), as item texts
    idx,         \* position of the `for item in selected_items.iter()` loop
    target,      \* the `fullname` of the current iteration / of the new note
    branch,      \* "vim", "generic" or "new": which call started the editor
    file,        \* the file at `target` as print_preview will find it
    log,         \* editor launches, editor exits and print_preview calls, in order
    stdout,      \* lines printed by print_preview
    lastPreview, \* the last print_preview call: its arguments and what it did
    err,         \* the panic that ended main(), or "none"
    stage,       \* position of the single-record pipelines (SpecResolve, SpecPreview)
    rec,         \* the match (path, line_number, content) rg found, and the file length
    item,        \* the record as one line of rg output
    fields,      \* the result of splitn(3, ':') on that line
    view         \* what the preview command shows for that line

vars == <<pc, cmd, editor, rgStatus, items, skimOut, selected, idx, target,
          branch, file, log, stdout, lastPreview, err, stage, rec, item,
          fields, view>>

flowVars == <<pc, cmd, editor, rgStatus, items, skimOut, selected, idx, target,
              branch, file, log, stdout, lastPreview, err>>

recVars == <<stage, rec, item, fields, view>>

-----------------------------------------------------------------------------
(* Bounds of the model.                                                    *)

MaxItems == 2        \* lines of rg output offered to skim
MaxPathLen == 2      \* characters of a path in SpecResolve
MaxContentLen == 2   \* characters of a matched line's content in SpecResolve
MaxLineNo == 100     \* largest line number of a match
MaxTail == 10        \* lines of the file after the matched line

-----------------------------------------------------------------------------
(* Text.                                                                   *)

Colon == ":"

RECURSIVE StringsUpTo(_, _)
StringsUpTo(alphabet, n) ==
    IF n = 0 THEN {<<>>}
    ELSE LET shorter == StringsUpTo(alphabet, n - 1)
         IN  shorter \cup {Append(s, c) : s \in shorter, c \in alphabet}

\* Index of the first c in s, or 0.
RECURSIVE FindFrom(_, _, _)
FindFrom(s, c, k) ==
    IF k > Len(s) THEN 0
    ELSE IF s[k] = c THEN k
    ELSE FindFrom(s, c, k + 1)

Find(s, c) == FindFrom(s, c, 1)

RECURSIVE Count(_, _)
Count(s, c) ==
    IF s = <<>> THEN 0
    ELSE (IF Head(s) = c THEN 1 ELSE 0) + Count(Tail(s), c)

\* str::splitn(n, d) for n >= 1: at most n pieces, the last one the remainder.
RECURSIVE SplitNAll(_, _, _)
SplitNAll(s, n, d) ==
    LET k == Find(s, d)
    IN  IF n <= 1 \/ k = 0 THEN <<s>>
        ELSE <<SubSeq(s, 1, k - 1)>> \o SplitNAll(SubSeq(s, k + 1, Len(s)), n - 1, d)

\* str::split(d): a piece per delimiter, no remainder kept together.
RECURSIVE SplitEvery(_, _)
SplitEvery(s, d) ==
    LET k == Find(s, d)
    IN  IF k = 0 THEN <<s>>
        ELSE <<SubSeq(s, 1, k - 1)>> \o SplitEvery(SubSeq(s, k + 1, Len(s)), d)

SplitEveryColon(s) == SplitEvery(s, Colon)

\* main.rs:103  output.splitn(3, ':').collect()
SplitItem(s) == SplitNAll(s, 3, Colon)

DigitChars == <<"0", "1", "2", "3", "4", "5", "6", "7", "8", "9">>

\* Decimal formatting of a natural number, as rg prints a line number.
RECURSIVE Digits(_)
Digits(n) ==
    IF n < 10 THEN <<DigitChars[n + 1]>>
    ELSE Append(Digits(n \div 10), DigitChars[(n % 10) + 1])

DigitValue(c) == CHOOSE d \in 0..9 : DigitChars[d + 1] = c

IsDigit(c) == \E d \in 0..9 : DigitChars[d + 1] = c

\* awk's string-to-number conversion of $1: the leading decimal digits, 0 if none.
RECURSIVE AwkNumFrom(_, _)
AwkNumFrom(s, acc) ==
    IF s = <<>> \/ ~IsDigit(Head(s)) THEN acc
    ELSE AwkNumFrom(Tail(s), acc * 10 + DigitValue(Head(s)))

AwkNum(s) == AwkNumFrom(s, 0)

\* One line of `rg --line-number --no-heading` output.
RgLine(path, line, content) == path \o <<Colon>> \o Digits(line) \o <<Colon>> \o content

-----------------------------------------------------------------------------
(* The preview command (main.rs:78-80), run by skim for the highlighted    *)
(* item with {1}, {2} the item's fields under the delimiter ":".           *)

\* skim's {n}: the n-th field of the item under .delimiter(":").
SkimField(s, n) ==
    LET parts == SplitEvery(s, Colon)
    IN  IF n <= Len(parts) THEN parts[n] ELSE <<>>

AwkStartShifted(s) == LET a == AwkNum(s) - 4 IN IF a < 0 THEN 0 ELSE a

\* main.rs:79  echo {2} | awk '{a=$1-5;if(a<0)a=0;print a}'
AwkStart(s) == LET a == AwkNum(s) - 5 IN IF a < 0 THEN 0 ELSE a

HeadLimit == 10

\* head -n10
HeadN(s) == IF Len(s) <= HeadLimit THEN s ELSE SubSeq(s, 1, HeadLimit)

\* bat --line-range <start>: on a file of flen lines: the line numbers printed.
BatFrom(start, flen) ==
    LET first == IF start < 1 THEN 1 ELSE start
    IN  [k \in 1..(IF flen >= first THEN flen - first + 1 ELSE 0) |-> first + k - 1]

\* main.rs:80  bat ... --line-range <awk>: {1} | head -n10
PreviewCmd(it, flen) ==
    LET start == AwkStart(SkimField(it, 2))
    IN  [start |-> start, lines |-> HeadN(BatFrom(start, flen))]

-----------------------------------------------------------------------------
(* Single-record pipelines: one match, encoded by rg, then decoded by the  *)
(* resolver (SpecResolve) or previewed by skim (SpecPreview).              *)

PathChars == {"d", "/"}
ContentChars == {"x", Colon}

NoRec == [path |-> <<>>, line |-> 0, content |-> <<>>, flen |-> 0]
NoView == [start |-> 0, lines |-> <<>>]
NoFile == [exists |-> FALSE, lines |-> <<>>]
NoPreview == [called |-> FALSE, action |-> "none", path |-> <<>>, file |-> NoFile,
              out |-> <<>>, panic |-> "none"]

FlowIdle ==
    /\ pc = "idle" /\ cmd = "none" /\ editor = <<>> /\ rgStatus = "unrun"
    /\ items = <<>> /\ skimOut = "unrun" /\ selected = <<>> /\ idx = 0
    /\ target = <<>> /\ branch = "none"
    /\ file = NoFile
    /\ log = <<>> /\ stdout = <<>>
    /\ lastPreview = NoPreview
    /\ err = "none"

RecIdle ==
    /\ stage = "idle" /\ rec = NoRec /\ item = <<>> /\ fields = <<>>
    /\ view = NoView

\* rg prints the match as one line.
EncodeRecord ==
    /\ stage = "match"
    /\ item' = RgLine(rec.path, rec.line, rec.content)
    /\ stage' = "line"
    /\ UNCHANGED <<rec, fields, view>>
    /\ UNCHANGED flowVars

\* main.rs:102-105
ResolveItem ==
    /\ stage = "line"
    /\ fields' = SplitItem(item)
    /\ stage' = "resolved"
    /\ UNCHANGED <<rec, item, view>>
    /\ UNCHANGED flowVars

\* skim runs the preview command for the highlighted line.
PreviewItem ==
    /\ stage = "line"
    /\ view' = PreviewCmd(item, rec.flen)
    /\ stage' = "previewed"
    /\ UNCHANGED <<rec, item, fields>>
    /\ UNCHANGED flowVars

InitResolve ==
    /\ FlowIdle
    /\ stage = "match"
    /\ rec \in [path : StringsUpTo(PathChars, MaxPathLen),
                line : 1..MaxLineNo,
                content : StringsUpTo(ContentChars, MaxContentLen),
                flen : {MaxLineNo}]
    /\ item = <<>> /\ fields = <<>> /\ view = NoView

NextResolve == EncodeRecord \/ ResolveItem

SpecResolve == InitResolve /\ [][NextResolve]_vars

InitPreview ==
    /\ FlowIdle
    /\ stage = "match"
    /\ \E l \in 1..MaxLineNo, t \in 0..MaxTail :
          rec = [path |-> <<"d", "/", "a">>, line |-> l,
                 content |-> <<"x", Colon, "x">>, flen |-> l + t]
    /\ item = <<>> /\ fields = <<>> /\ view = NoView

NextPreview == EncodeRecord \/ PreviewItem

SpecPreview == InitPreview /\ [][NextPreview]_vars

-----------------------------------------------------------------------------
(* The program: main() of src/src/main.rs.                                 *)

Vim == <<"v", "i", "m">>
UsrBinVim == <<"/", "u", "s", "r", "/", "b", "i", "n", "/", "v", "i", "m">>
Nano == <<"n", "a", "n", "o">>
NoEditor == <<>>

\* What edit::get_editor() can resolve to: nothing, a bare command name or a
\* full path, as the environment (VISUAL, EDITOR, PATH) decides.
EditorEnv == {NoEditor, Vim, UsrBinVim, Nano}

NotesDir == <<"d">>
NoteA == <<"d", "/", "a">>
NoteB == <<"d", "/", "b">>

\* Lines rg can put on its stdout: well-formed records (one with ":" in its
\* content, one with empty content) and records cut short.
ItemTexts ==
    { RgLine(NoteA, 3, <<"x", Colon, "x">>),
      RgLine(NoteB, 12, <<>>),
      NoteA,
      NoteA \o <<Colon>> \o Digits(3) }

SeqsUpTo(S, n) == UNION {[1..k -> S] : k \in 0..n}

\* Orders in which skim can hand back some of n items, each at most once.
Selections(n) ==
    {s \in SeqsUpTo(1..n, n) : \A i, j \in 1..Len(s) : i # j => s[i] # s[j]}

BadLine == "<invalid utf-8>"

\* The file at `fullname` when print_preview opens it: absent, empty, two
\* lines of text, or a first line that is not UTF-8.
FileStates ==
    { NoFile,
      [exists |-> TRUE, lines |-> <<>>],
      [exists |-> TRUE, lines |-> <<"first", "second">>],
      [exists |-> TRUE, lines |-> <<BadLine, "second">>] }

IsNormal(c) == c # <<>> /\ c # <<".">>

\* Path::file_name: the last component, none (<<>>) if there is no normal
\* last component.
FileName(p) ==
    LET comps == SelectSeq(SplitEvery(p, "/"), IsNormal)
    IN  IF comps = <<>> \/ comps[Len(comps)] = <<".", ".">> THEN <<>>
        ELSE comps[Len(comps)]

\* Path::join for a relative right-hand side.
Join(dir, name) == dir \o <<"/">> \o name

Timestamp == <<"T">>
MdSuffix == <<".", "m", "d">>

\* main.rs:56-59
NoteFileName(filename) ==
    IF filename = <<>> THEN Timestamp \o MdSuffix
    ELSE Timestamp \o <<"-">> \o filename \o MdSuffix

ActionTag(action) == IF action = "Created" THEN "Created" ELSE "Edited"

PrintAllLines(action, fullname, f) ==
    IF ~f.exists THEN [out |-> <<>>, panic |-> "File should exist"]
    ELSE [out |-> [k \in 1..Len(f.lines) |->
                      [action |-> ActionTag(action), name |-> FileName(fullname),
                       line |-> f.lines[k]]],
          panic |-> "none"]

\* main.rs:23-46  print_preview: what it prints and whether it panics.
PrintPreview(action, fullname, f) ==
    IF ~f.exists THEN [out |-> <<>>, panic |-> "File should exist"]
    ELSE IF f.lines = <<>> THEN [out |-> <<>>, panic |-> "none"]
    ELSE IF FileName(fullname) = <<>> THEN [out |-> <<>>, panic |-> "file_name unwrap"]
    ELSE IF f.lines[1] = BadLine
         THEN [out |-> <<>>, panic |-> "Line should at least exist"]
    ELSE [out |-> <<[action |-> ActionTag(action), name |-> FileName(fullname),
                     line |-> f.lines[1]]>>,
          panic |-> "none"]

SkipIndex(i) == i + 2

\* main.rs:101  the iterator of the for loop moves to the next item.
NextIndex(i) == i + 1

Panic(msg) ==
    /\ pc' = "panic"
    /\ err' = msg

Init ==
    /\ RecIdle
    /\ pc = "start"
    /\ cmd \in {"new", "search"}
    /\ editor \in EditorEnv
    /\ rgStatus = "unrun" /\ items = <<>> /\ skimOut = "unrun"
    /\ selected = <<>> /\ idx = 0 /\ target = <<>> /\ branch = "none"
    /\ file = NoFile /\ log = <<>> /\ stdout = <<>>
    /\ lastPreview = NoPreview /\ err = "none"

\* main.rs:50-53  the notes directory, then the subcommand.
Startup ==
    /\ pc = "start"
    /\ \E xdg \in BOOLEAN :
          IF xdg THEN /\ pc' = (IF cmd = "new" THEN "new" ELSE "rg")
                      /\ err' = err
          ELSE Panic("XDG_CONFIG_HOME unwrap")
    /\ UNCHANGED <<cmd, editor, rgStatus, items, skimOut, selected, idx, target,
                   branch, file, log, stdout, lastPreview>>
    /\ UNCHANGED recVars

\* main.rs:55-61  edit::edit_file(&fullname).unwrap(): the editor is started
\* on the new note's path.
NewLaunch ==
    /\ pc = "new"
    /\ \E filename \in {<<>>, <<"x">>}, spawned \in BOOLEAN :
          LET fullname == Join(NotesDir, NoteFileName(filename))
          IN  /\ target' = fullname
              /\ IF editor = NoEditor \/ ~spawned
                 THEN /\ Panic("edit_file unwrap")
                      /\ UNCHANGED <<log, branch>>
                 ELSE /\ pc' = "editing"
                      /\ err' = err
                      /\ branch' = "new"
                      /\ log' = Append(log, [ev |-> "launch", i |-> 1,
                                             argv |-> <<editor, fullname>>,
                                             status |-> 0])
    /\ UNCHANGED <<cmd, editor, rgStatus, items, skimOut, selected, idx, file,
                   stdout, lastPreview>>
    /\ UNCHANGED recVars

\* main.rs:67-75  Command::new("rg")...output().expect("rg to work").stdout:
\* a spawn failure panics; the exit status of a child that ran is not read.
\* rg exits 0 with matches, 1 with none, 2 on an error (with the matches it
\* had found written to stdout).
RunRg ==
    /\ pc = "rg"
    /\ \/ /\ rgStatus' = "nospawn"
          /\ items' = <<>>
          /\ Panic("rg to work")
       \/ /\ rgStatus' = "ok"
          /\ items' \in SeqsUpTo(ItemTexts, MaxItems) \ {<<>>}
          /\ pc' = "skim" /\ err' = err
       \/ /\ rgStatus' = "nomatch"
          /\ items' = <<>>
          /\ pc' = "skim" /\ err' = err
       \/ /\ rgStatus' = "error"
          /\ items' \in SeqsUpTo(ItemTexts, MaxItems)
          /\ pc' = "skim" /\ err' = err
    /\ UNCHANGED <<cmd, editor, skimOut, selected, idx, target, branch, file,
                   log, stdout, lastPreview>>
    /\ UNCHANGED recVars

\* main.rs:92-98  Skim::run_with(&options, Some(items))
\*     .map(|out| out.selected_items).unwrap_or_else(|| Vec::new())
\* run_with consumes the item stream and returns None, or Some(out) where out
\* carries is_abort and selected_items; only selected_items is read.
RunSkim ==
    /\ pc = "skim"
    /\ \/ /\ skimOut' = "none"
          /\ selected' = <<>>
       \/ \E is_abort \in BOOLEAN, sel \in Selections(Len(items)) :
             /\ skimOut' = (IF is_abort THEN "abort" ELSE "accept")
             /\ selected' = [k \in 1..Len(sel) |-> items[sel[k]]]
    /\ items' = <<>>
    /\ idx' = 1
    /\ pc' = "loop"
    /\ UNCHANGED <<cmd, editor, rgStatus, target, branch, file, log, stdout,
                   lastPreview, err>>
    /\ UNCHANGED recVars

\* main.rs:101  the loop is over.
LoopDone ==
    /\ pc = "loop"
    /\ idx > Len(selected)
    /\ pc' = "done"
    /\ UNCHANGED <<cmd, editor, rgStatus, items, skimOut, selected, idx, target,
                   branch, file, log, stdout, lastPreview, err>>
    /\ UNCHANGED recVars

\* main.rs:102-125  one iteration up to the start of the editor:
\* splitn(3, ':'), split[0], split[1] (an index past the end panics),
\* get_editor().expect, then the match on the editor's displayed path.
LaunchEditor ==
    /\ pc = "loop"
    /\ idx <= Len(selected)
    /\ LET split == SplitItem(selected[idx])
       IN  IF Len(split) < 2
           THEN /\ Panic("index out of bounds")
                /\ UNCHANGED <<target, branch, log>>
           ELSE LET fullname == split[1]
                    lineno == split[2]
                IN  /\ target' = fullname
                    /\ IF editor = NoEditor
                       THEN /\ Panic("Editor should exist")
                            /\ UNCHANGED <<branch, log>>
                       ELSE \E spawned \in BOOLEAN :
                            IF editor = Vim
                            THEN \* Command::new(&editor).args(["+<lineno>"]).arg(fullname)
                                 IF spawned
                                 THEN /\ pc' = "editing" /\ err' = err
                                      /\ branch' = "vim"
                                      /\ log' = Append(log,
                                            [ev |-> "launch", i |-> idx,
                                             argv |-> <<editor, <<"+">> \o lineno, fullname>>,
                                             status |-> 0])
                                 ELSE /\ Panic("vim should have worked")
                                      /\ UNCHANGED <<branch, log>>
                            ELSE \* x => edit::edit_file(Path::new(x)): x is the editor
                                 IF spawned
                                 THEN /\ pc' = "editing" /\ err' = err
                                      /\ branch' = "generic"
                                      /\ log' = Append(log,
                                            [ev |-> "launch", i |-> idx,
                                             argv |-> <<editor, editor>>,
                                             status |-> 0])
                                 ELSE /\ Panic("Edit should have worked")
                                      /\ UNCHANGED <<branch, log>>
    /\ UNCHANGED <<cmd, editor, rgStatus, items, skimOut, selected, idx, file,
                   stdout, lastPreview>>
    /\ UNCHANGED recVars

\* The editor exits and the blocking call returns. main.rs:118-120 drops the
\* status of the vim child; edit::edit_file returns Err for a status other
\* than success, which .expect (main.rs:123) and .unwrap (main.rs:61) turn
\* into a panic. The file at `target` is left in some state.
EditorExit ==
    /\ pc = "editing"
    /\ \E status \in {0, 1}, f \in FileStates :
          /\ file' = f
          /\ log' = Append(log, [ev |-> "exit", i |-> idx, argv |-> <<>>,
                                 status |-> status])
          /\ IF branch = "vim" \/ status = 0
             THEN pc' = "preview" /\ err' = err
             ELSE Panic(IF branch = "new" THEN "edit_file unwrap"
                        ELSE "Edit should have worked")
    /\ UNCHANGED <<cmd, editor, rgStatus, items, skimOut, selected, idx, target,
                   branch, stdout, lastPreview>>
    /\ UNCHANGED recVars

\* main.rs:62 and main.rs:126-128  print_preview, then the next iteration.
Preview ==
    /\ pc = "preview"
    /\ LET action == IF cmd = "new" THEN "Created" ELSE "Edited"
           r == PrintPreview(action, target, file)
       IN  /\ lastPreview' = [called |-> TRUE, action |-> action, path |-> target,
                              file |-> file, out |-> r.out, panic |-> r.panic]
           /\ stdout' = stdout \o r.out
           /\ log' = Append(log, [ev |-> "preview", i |-> idx, argv |-> <<>>,
                                  status |-> 0])
           /\ IF r.panic # "none" THEN Panic(r.panic) /\ idx' = idx
              ELSE IF cmd = "new" THEN pc' = "done" /\ err' = err /\ idx' = idx
              ELSE pc' = "loop" /\ err' = err /\ idx' = NextIndex(idx)
    /\ UNCHANGED <<cmd, editor, rgStatus, items, skimOut, selected, target,
                   branch, file>>
    /\ UNCHANGED recVars

Next ==
    \/ Startup
    \/ NewLaunch
    \/ RunRg
    \/ RunSkim
    \/ LoopDone
    \/ LaunchEditor
    \/ EditorExit
    \/ Preview

Spec == Init /\ [][Next]_vars

-----------------------------------------------------------------------------
(* Claims about the search and new flows (specification Spec).             *)

Launches == {k \in 1..Len(log) : log[k].ev = "launch"}

\* The fields of the selected item an event of the search loop belongs to.
FieldsOf(k) == SplitItem(selected[log[k].i])

(* C1: in the search flow, an editor whose base name is not vim is started *)
(* as `<editor> <path>`, path being the first field of the selected item,  *)
(* with no line-number argument.                                           *)
C1_GenericOpensMatch ==
    cmd = "search" =>
        \A k \in Launches :
            FileName(log[k].argv[1]) # Vim =>
                log[k].argv = <<editor, FieldsOf(k)[1]>>

(* C2: in the search flow, an editor whose base name is vim, resolved as   *)
(* `vim` or as a full path, is started as `<editor> +<line_number> <path>`,*)
(* line_number and path being the second and first field of the item.     *)
C2_VimByBaseName ==
    cmd = "search" =>
        \A k \in Launches :
            FileName(log[k].argv[1]) = Vim =>
                log[k].argv = <<editor, <<"+">> \o FieldsOf(k)[2], FieldsOf(k)[1]>>

(* C3: an item with fewer than two ":" is a parse error, with no editor    *)
(* started and no preview for it; an item with two or more is resolved.    *)
C3_ShortItemsFail ==
    cmd = "search" =>
        /\ \A k \in 1..Len(log) : Count(selected[log[k].i], Colon) >= 2
        /\ (err = "index out of bounds" => Count(selected[idx], Colon) < 2)

(* C5: the search loop works through the selected items in the order skim  *)
(* returned them: launch, exit and preview of item 1, then of item 2, and  *)
(* so on, each once, nothing started before the previous preview is done;  *)
(* a loop that ends normally has handled every item.                       *)
StepKinds == <<"launch", "exit", "preview">>

C6_QuietOnNothing ==
    (cmd = "search" /\ (rgStatus = "nomatch" \/ skimOut = "abort")) =>
        /\ log = <<>>
        /\ stdout = <<>>
        /\ err = "none"

(* C7: an editor that was started and exits with a non-zero status is not  *)
(* an error: the flow goes on to the preview, on the vim path, on the      *)
(* generic path and in `new`.                                              *)
C7_NonZeroExitNotFatal ==
    (Len(log) > 0 /\ log[Len(log)].ev = "exit" /\ log[Len(log)].status # 0) =>
        pc = "preview"

(* C8: rg that cannot be spawned, or that exits with a failure status, is  *)
(* an error that ends the search before skim is shown; "no matches" is no  *)
(* error and yields no items.                                              *)
C8_RgOutcomes ==
    /\ (rgStatus \in {"nospawn", "error"} => pc = "panic" /\ skimOut = "unrun")
    /\ (rgStatus = "nomatch" /\ pc = "skim" => items = <<>> /\ err = "none")

IsBaseNameOf(name, path) ==
    /\ name # <<>>
    /\ Count(name, "/") = 0
    /\ Len(path) >= Len(name)
    /\ SubSeq(path, Len(path) - Len(name) + 1, Len(path)) = name
    /\ (Len(path) = Len(name) \/ path[Len(path) - Len(name)] = "/")

(* C9 as stated: on a file that can be opened print_preview prints exactly *)
(* one line if the file has a line and none if it is empty, the line made  *)
(* of the action tag, the base name and the first line; on a file that     *)
(* cannot be opened it is fatal and prints nothing.                        *)
C9_AsStated ==
    lastPreview.called =>
        LET f == lastPreview.file
            out == lastPreview.out
        IN  /\ (~f.exists => lastPreview.panic # "none" /\ out = <<>>)
            /\ (f.exists /\ f.lines = <<>> => out = <<>>)
            /\ (f.exists /\ f.lines # <<>> =>
                  /\ Len(out) = 1
                  /\ out[1].action = lastPreview.action
                  /\ out[1].line = f.lines[1]
                  /\ IsBaseNameOf(out[1].name, lastPreview.path))

(* C9 as amended: on a file that can be opened print_preview prints        *)
(* exactly one line if the first line can be read as UTF-8 text (the       *)
(* action tag, the base name and that first line, never a later one) and   *)
(* none if the file is empty; if the file cannot be opened, or its first   *)
(* line cannot be read, the call is fatal and prints nothing.              *)
C9_Preview ==
    lastPreview.called =>
        LET f == lastPreview.file
            out == lastPreview.out
        IN  /\ (~f.exists => lastPreview.panic # "none" /\ out = <<>>)
            /\ (f.exists /\ f.lines = <<>> =>
                  out = <<>> /\ lastPreview.panic = "none")
            /\ (f.exists /\ f.lines # <<>> /\ f.lines[1] # BadLine =>
                  /\ Len(out) = 1
                  /\ out[1].action = lastPreview.action
                  /\ out[1].action \in {"Created", "Edited"}
                  /\ out[1].line = f.lines[1]
                  /\ IsBaseNameOf(out[1].name, lastPreview.path)
                  /\ lastPreview.panic = "none")
            /\ (f.exists /\ f.lines # <<>> /\ f.lines[1] = BadLine =>
                  out = <<>> /\ lastPreview.panic # "none")
            /\ (lastPreview.panic # "none" => pc = "panic")
            /\ (stdout # <<>> /\ out # <<>> => stdout[Len(stdout)] = out[1])

C9_Witness ==
    /\ lastPreview.called
    /\ lastPreview.action = "Edited"
    /\ Len(lastPreview.file.lines) = 2
    /\ Len(lastPreview.out) = 1
    /\ lastPreview.out[1].line = "first"
    /\ lastPreview.out[1].name = <<"a">>
    /\ Len(stdout) = 2

-----------------------------------------------------------------------------
(* Claims about one record (SpecResolve, SpecPreview).                     *)

(* C4: a record `path:line_number:content` whose path holds no ":" decodes *)
(* under splitn(3, ':') to exactly the path, the line number (as printed,  *)
(* and as a number) and the content, also when the content holds ":".      *)
C4_RoundTrip ==
    stage = "resolved" =>
        /\ Len(fields) = 3
        /\ fields[1] = rec.path
        /\ fields[2] = Digits(rec.line)
        /\ AwkNum(fields[2]) = rec.line
        /\ fields[3] = rec.content

C4_Witness ==
    /\ stage = "resolved"
    /\ Count(rec.content, Colon) >= 1
    /\ rec.line >= 10
    /\ fields[3] = rec.content

====
